---- MODULE Spec2Model ----
(***************************************************************************)
(* A model of the TodoApp client: the data provider (DataContext.tsx), the *)
(* notification service (services/notifications.ts) and the task dialog    *)
(* (components/TaskDialog.tsx), together with the remote tables they talk  *)
(* to and the operating system's table of scheduled notifications; the     *)
(* auth provider (AuthContext.tsx), the notifications provider and the     *)
(* tasks screen with its Kanban view.                                      *)
(*                                                                         *)
(* Every await of the source is two steps: the remote store serves the     *)
(* request (Server...), and later the client continues with the response   *)
(* (Cont...).  Responses of different requests may therefore be consumed   *)
(* in any order, as on a real network.  A request may be answered with an  *)
(* error; supabase-js then resolves with data = null and does not throw.   *)
(*                                                                         *)
(* Left out: colours, descriptions, titles, timestamps and order_index of  *)
(* the rows (no operation modelled here reads them).                       *)
(***************************************************************************)
EXTENDS Integers, Sequences, FiniteSets, TLC

\* ---------------------------------------------------------------- bounds
MaxRuns == 2        \* loadData calls in flight at the same time
MaxId == 3          \* row ids the remote store hands out
MaxEvents == 1      \* realtime change events queued for delivery
MaxCalls == 2       \* calls the user interface makes (mutations, sign-outs)
MaxErrors == 1      \* requests the remote store answers with an error
MaxTicks == 2       \* steps of the clock, of half a minute each
MaxTasks == 2       \* tasks in the list the tasks screen is shown with

\* ------------------------------------------------------------- constants
NoUser == "none"
Users == {"u1"}
Undefined == -1     \* an absent optional field (due_date, minutes_before)
NoOwner == 0
Minute == 60000                 \* ms in a minute
DefaultMinutesBefore == 60      \* scheduleTaskNotification's default lead time
InitialMinutesBefore == 60      \* the dialog's initial lead time
AllOptions == <<5, 15, 30, 60, 120, 1440>>
FallbackOption == 1
RunIds == 1..MaxRuns
OpIds == {1}

VARIABLES
    user,           \* AuthContext user (id or NoUser)
    tasks,          \* DataProvider state: Task[]
    categories,     \* DataProvider state: Category[]
    loading,        \* DataProvider state
    rcats,          \* remote table categories
    rtasks,         \* remote table tasks
    nextId,         \* next row id of the remote store
    events,         \* realtime change events not yet delivered
    runs,           \* the loadData calls in flight
    ops,            \* the mutation in flight (addTask ... deleteCategory)
    used,           \* how much of MaxCalls and MaxErrors is used up
    hist,           \* history, never read by the program: firstOk = a loadData has
                    \* completed without error since the sign-in, out = a sign-out
                    \* has happened, call = the arguments and the time of the
                    \* last call of scheduleTaskReminder
    now,            \* the clock, in ms
    dlg,            \* TaskDialog: its props (visible, task) and its form state
    sub,            \* the handleSubmit call in flight, with the values of its closure
    isRegistered,   \* NotificationsProvider state
    scheduled,      \* the notifications the operating system holds scheduled
    nextNotif,      \* next notification identifier
    alert,          \* the last Alert.alert shown
    profile,        \* AuthProvider state: <<>> for null, else <<profile row>>
    rprofiles,      \* remote table profiles
    lp,             \* AuthProvider calls in flight: session checks, loadProfile
    expoPushToken,  \* NotificationsProvider state: <<>> for null, else <<token>>
    reg,            \* the registerPushNotifications calls in flight
    selectedFilter, \* TasksScreen state
    kanbanFilter    \* TasksScreen state

data == <<user, tasks, categories, loading, rcats, rtasks, nextId, events, runs, ops>>
auth == <<profile, rprofiles, lp>>
push == <<expoPushToken, reg>>
screen == <<selectedFilter, kanbanFilter>>
notif == <<now, sub, isRegistered, scheduled, nextNotif, alert, auth, push, screen>>
vars == <<user, tasks, categories, loading, rcats, rtasks, nextId, events, runs, ops, used, hist,
          now, dlg, sub, isRegistered, scheduled, nextNotif, alert,
          profile, rprofiles, lp, expoPushToken, reg, selectedFilter, kanbanFilter>>

\* ------------------------------------------------------------- helpers
Min(a, b) == IF a < b THEN a ELSE b

RECURSIVE SortRows(_, _)
\* the rows of S as a sequence, smallest key first (keys are distinct)
SortRows(S, key) ==
    IF S = {} THEN <<>>
    ELSE LET m == CHOOSE x \in S : \A y \in S : key[x] <= key[y]
         IN <<m>> \o SortRows(S \ {m}, key)

\* .order('is_default', { ascending: false }); ties in id order
CatKey(c) == (IF c.is_default THEN 0 ELSE MaxId + 1) + c.id
\* .order('created_at', { ascending: false }): newest row (largest id) first
TaskKey(t) == 0 - t.id

SeqToSet(s) == {s[i] : i \in 1..Len(s)}

ApplyUpdates(row, upd) ==
    [f \in DOMAIN row |-> IF f \in DOMAIN upd THEN upd[f] ELSE row[f]]

\* SafeUpdates that passes is_default on
AllUpdates(upd) == upd

\* const { is_default, ...safeUpdates } = updates
SafeUpdates(upd) == [f \in (DOMAIN upd) \ {"is_default"} |-> upd[f]]

DefaultsOf(S, u) == {c \in S : c.user_id = u /\ c.is_default}

\* err is history: some request of the run was answered with an error
IdleRun == [pc |-> "idle", uid |-> NoUser, ok |-> FALSE, data |-> <<>>,
            err |-> FALSE, owner |-> NoOwner]
IdleOp == [kind |-> "none", pc |-> "idle", uid |-> NoUser, id |-> 0,
           upd |-> [f \in {} |-> 0], todo |-> <<>>, def |-> 0, ok |-> FALSE, loads |-> 0,
           msg |-> ""]

\* what is left of a mutation once its promise is settled
Rejected(kind) == [IdleOp EXCEPT !.kind = kind, !.pc = "rejected"]
Resolved(kind, n) == [IdleOp EXCEPT !.kind = kind, !.pc = "resolved", !.loads = n]

\* a realtime change event is queued on the channel of the row's owner
Emit(u) ==
    IF u \in Users THEN [events EXCEPT ![u] = Min(events[u] + 1, MaxEvents)] ELSE events

\* ------------------------------------------------------- remote queries
\* .from('categories').select('*').eq('user_id', u).eq('is_default', true).maybeSingle()
\* no row: data null; one row: the row; several rows: an error, data null
LookupDefault(u) ==
    LET found == DefaultsOf(rcats, u)
    IN IF Cardinality(found) = 1 THEN [ok |-> TRUE, data |-> <<CHOOSE c \in found : TRUE>>]
       ELSE [ok |-> Cardinality(found) = 0, data |-> <<>>]

SelectCategories(u) ==
    LET S == {c \in rcats : c.user_id = u} IN SortRows(S, [c \in S |-> CatKey(c)])
SelectTasks(u) ==
    LET S == {t \in rtasks : t.user_id = u} IN SortRows(S, [t \in S |-> TaskKey(t)])

NewDefaultCategory(u) ==
    [id |-> nextId, name |-> "General", user_id |-> u, is_default |-> TRUE]

\* ----------------------------------------------------- TaskDialog (pure)
Trunc(a, b) == IF a >= 0 THEN a \div b ELSE 0 - ((0 - a) \div b)
\* date-fns differenceInMinutes: full minutes, rounded towards zero
DifferenceInMinutes(dateLeft, dateRight) == Trunc(dateLeft - dateRight, Minute)

\* useMemo(..., [dueDate]): computed when dueDate is set, <<>> stands for null
MinutesUntilDue(dueDate, t) ==
    IF dueDate = Undefined THEN <<>> ELSE <<DifferenceInMinutes(dueDate, t)>>

\* !minutesUntilDue
Falsy(mu) == mu = <<>> \/ mu[1] = 0

ValidNotificationOptions(mu) ==
    IF Falsy(mu) \/ mu[1] <= 0 THEN AllOptions
    ELSE LET validOptions == SelectSeq(AllOptions, LAMBDA v : v < mu[1])
         IN IF Len(validOptions) > 0 THEN validOptions ELSE <<FallbackOption>>

IsNotificationValid(d) ==
    IF d.dueDate = Undefined \/ Falsy(d.minutesUntilDue) THEN FALSE
    ELSE d.notificationMinutesBefore < d.minutesUntilDue[1]

\* the auto-adjust effect, run when dueDate (and with it the memo) changes
AutoAdjust(d) ==
    IF /\ d.dueDate # Undefined
       /\ d.minutesUntilDue # <<>>
       /\ d.minutesUntilDue[1] > 0
       /\ d.notificationMinutesBefore >= d.minutesUntilDue[1]
    THEN LET opts == ValidNotificationOptions(d.minutesUntilDue)
         IN [d EXCEPT !.notificationMinutesBefore = opts[Len(opts)]]
    ELSE d

\* setDueDate(x) followed by the memo and the auto-adjust effect
WithDueDate(d, x, t) ==
    AutoAdjust([d EXCEPT !.dueDate = x, !.minutesUntilDue = MinutesUntilDue(x, t)])

DefaultCategoryOf(cats) == SelectSeq(cats, LAMBDA c : c.is_default)

ResetForm(d, cats) ==
    [d EXCEPT !.title = FALSE, !.dueDate = Undefined, !.minutesUntilDue = <<>>,
              !.enableNotification = TRUE,
              !.notificationMinutesBefore = InitialMinutesBefore,
              !.categoryId = IF Len(DefaultCategoryOf(cats)) > 0
                             THEN DefaultCategoryOf(cats)[1].id ELSE d.categoryId]

\* useEffect(..., [task, visible, categories]): the form is filled from the
\* task being edited, or reset for a new task
FormEffect(d, cats, t) ==
    IF d.task # <<>>
    THEN LET task == d.task[1]
             filled == [d EXCEPT
                 !.title = TRUE,
                 !.categoryId = task.category_id,
                 !.enableNotification = task.enable_notification,
                 !.notificationMinutesBefore =
                     IF task.notification_minutes_before = Undefined
                     THEN InitialMinutesBefore ELSE task.notification_minutes_before]
         IN WithDueDate(filled, task.due_date, t)
    ELSE ResetForm(d, cats)

\* setCategories(...) hands the dialog a new array: its effect runs again
CategoriesEffect(d, cats, t) == FormEffect(d, cats, t)

ClosedDialog ==
    [visible |-> FALSE, task |-> <<>>, title |-> FALSE, categoryId |-> 0,
     dueDate |-> Undefined, minutesUntilDue |-> <<>>, enableNotification |-> TRUE,
     notificationMinutesBefore |-> InitialMinutesBefore]

IdleSubmit == [pc |-> "idle", d |-> ClosedDialog, valid |-> FALSE, isRegistered |-> FALSE]

\* ------------------------------------------- NotificationsService (pure)
\* TriggerDate with the lead time taken as seconds
TriggerDateSeconds(dueDate, minutesBefore) == dueDate - minutesBefore * 1000

\* new Date(dueDate.getTime() - minutesBefore * 60000)
TriggerDate(dueDate, minutesBefore) == dueDate - minutesBefore * Minute

\* ScheduleTaskNotification without the check for a trigger in the past
ScheduleUnchecked(taskId, dueDate, minutesBefore, t) ==
    LET mb == IF minutesBefore = Undefined THEN DefaultMinutesBefore ELSE minutesBefore
    IN scheduled \cup {[id |-> nextNotif, taskId |-> taskId, type |-> "task_reminder",
                        date |-> TriggerDate(dueDate, mb), minutesBefore |-> mb, at |-> t]}

\* scheduleTaskNotification: the table of scheduled notifications after the
\* call (unchanged when the trigger is not in the future)
ScheduleTaskNotification(taskId, dueDate, minutesBefore, t) ==
    LET mb == IF minutesBefore = Undefined THEN DefaultMinutesBefore ELSE minutesBefore
        triggerDate == TriggerDate(dueDate, mb)
    IN IF triggerDate <= t THEN scheduled
       ELSE scheduled \cup {[id |-> nextNotif, taskId |-> taskId, type |-> "task_reminder",
                             date |-> triggerDate, minutesBefore |-> mb, at |-> t]}

\* NotificationsContext.scheduleTaskReminder
ScheduleTaskReminder(taskId, dueDate, minutesBefore, t) ==
    ScheduleTaskNotification(taskId, dueDate,
        IF minutesBefore = Undefined THEN DefaultMinutesBefore ELSE minutesBefore, t)

\* ------------------------------------------------------- AuthProvider
\* the users that can hold the session of the device
AuthUsers == {"u1", "u2"}

\* supabase.auth.getSession() of loadInitialSession or of the app-foreground
\* listener, not yet answered
SessionCheck == [kind |-> "session", pc |-> "session", uid |-> NoUser, ok |-> FALSE]

\* loadProfile(userId) up to its first await
LoadProfile(userId) == [kind |-> "profile", pc |-> "select", uid |-> userId, ok |-> FALSE]

Remove(s, i) == SubSeq(s, 1, i - 1) \o SubSeq(s, i + 1, Len(s))

\* registerPushNotifications() up to its first await
Registration(u) == [uid |-> u, pc |-> "token"]

\* the value of selectedFilter: one of the named filters, or a category id
Filter(name) == [name |-> name, category |-> 0]
CategoryFilter(id) == [name |-> "category", category |-> id]

\* ---------------------------------------------------------------- Init
InitialRemote ==
    LET general == [id |-> 1, name |-> "General", user_id |-> "u1", is_default |-> TRUE]
        work == [id |-> 2, name |-> "Work", user_id |-> "u1", is_default |-> FALSE]
        task == [id |-> 3, user_id |-> "u1", category_id |-> 2, status |-> "upcoming",
                 due_date |-> Undefined, enable_notification |-> FALSE,
                 notification_minutes_before |-> Undefined]
    IN { [c |-> {}, t |-> {}, n |-> 1],
         [c |-> {general}, t |-> {}, n |-> 2],
         [c |-> {general, work}, t |-> {task}, n |-> 4] }

Init ==
    /\ user = NoUser
    /\ tasks = <<>>
    /\ categories = <<>>
    /\ loading = TRUE
    /\ \E r \in InitialRemote : rcats = r.c /\ rtasks = r.t /\ nextId = r.n
    /\ events = [u \in Users |-> 0]
    /\ runs = [r \in RunIds |-> IdleRun]
    /\ ops = [o \in OpIds |-> IdleOp]
    /\ used = [calls |-> 0, errors |-> 0]
    /\ hist = [firstOk |-> FALSE, out |-> FALSE,
               call |-> [seq |-> 0, taskId |-> 0, dueDate |-> Undefined,
                         minutesBefore |-> Undefined, at |-> 0]]
    /\ now = 0
    /\ dlg = ClosedDialog
    /\ sub = IdleSubmit
    /\ isRegistered = FALSE
    /\ scheduled = {}
    /\ nextNotif = 1
    /\ alert = "none"
    /\ profile = <<>>
    /\ rprofiles = {}
    /\ lp = <<SessionCheck>>
    /\ expoPushToken = <<>>
    /\ reg = <<>>
    /\ selectedFilter = Filter("all")
    /\ kanbanFilter = "all"

\* the remote store answers with an error / a user-interface call is made
Fails == used.errors < MaxErrors /\ used' = [used EXCEPT !.errors = used.errors + 1]
Called == used.calls < MaxCalls /\ used' = [used EXCEPT !.calls = used.calls + 1]

\* ------------------------------------------------------------ loadData
\* The synchronous head of loadData for a signed-in user, up to the first
\* await: ensureDefaultCategory issues its lookup.
BeginLoad(r, u, owner) ==
    [runs EXCEPT ![r] = [IdleRun EXCEPT !.pc = "lookup", !.uid = u, !.owner = owner]]

\* The lookup is served and ensureDefaultCategory continues: if (data) return;
\* (loadData then issues the select of the categories), otherwise the insert
\* is issued.  The continuation touches no state, so it is one step with the
\* answer.
Lookup(r) ==
    /\ runs[r].pc = "lookup"
    /\ \/ /\ LET res == LookupDefault(runs[r].uid)
             IN runs' = [runs EXCEPT ![r].pc = IF Len(res.data) > 0 THEN "cats" ELSE "insert",
                                     ![r].err = runs[r].err \/ ~res.ok]
          /\ UNCHANGED used
       \/ /\ Fails
          /\ runs' = [runs EXCEPT ![r].pc = "insert", ![r].err = TRUE]
    /\ UNCHANGED <<user, tasks, categories, loading, rcats, rtasks, nextId, events, ops, hist, dlg>>
    /\ UNCHANGED notif

ServerInsert(r) ==
    /\ runs[r].pc = "insert"
    /\ \/ /\ nextId <= MaxId
          /\ rcats' = rcats \cup {NewDefaultCategory(runs[r].uid)}
          /\ nextId' = nextId + 1
          /\ events' = Emit(runs[r].uid)
          /\ runs' = [runs EXCEPT ![r].pc = "insert_ret", ![r].ok = TRUE,
                                  ![r].data = <<NewDefaultCategory(runs[r].uid)>>]
          /\ UNCHANGED used
       \/ /\ Fails \/ (nextId > MaxId /\ UNCHANGED used)
          /\ runs' = [runs EXCEPT ![r].pc = "insert_ret", ![r].ok = FALSE,
                                  ![r].data = <<>>, ![r].err = TRUE]
          /\ UNCHANGED <<rcats, nextId, events>>
    /\ UNCHANGED <<user, tasks, categories, loading, rtasks, ops, hist, dlg>>
    /\ UNCHANGED notif

\* if (newCategory) setCategories((prev) => [newCategory, ...prev]); then
\* loadData issues the select of the categories
ContInsert(r) ==
    /\ runs[r].pc = "insert_ret"
    /\ categories' = IF Len(runs[r].data) > 0 THEN runs[r].data \o categories ELSE categories
    /\ runs' = [runs EXCEPT ![r].pc = "cats", ![r].data = <<>>]
    /\ UNCHANGED <<user, tasks, loading, rcats, rtasks, nextId, events, ops, used, hist>>
    /\ UNCHANGED notif
    /\ dlg' = CategoriesEffect(dlg, categories', now)

ServerCats(r) ==
    /\ runs[r].pc = "cats"
    /\ \/ /\ runs' = [runs EXCEPT ![r].pc = "cats_ret", ![r].ok = TRUE,
                                  ![r].data = SelectCategories(runs[r].uid)]
          /\ UNCHANGED used
       \/ /\ Fails
          /\ runs' = [runs EXCEPT ![r].pc = "cats_ret", ![r].ok = FALSE,
                                     ![r].data = <<>>, ![r].err = TRUE]
    /\ UNCHANGED <<user, tasks, categories, loading, rcats, rtasks, nextId, events, ops, hist, dlg>>
    /\ UNCHANGED notif

\* if (catData) setCategories(catData); then the select of the tasks is issued
ContCats(r) ==
    /\ runs[r].pc = "cats_ret"
    /\ categories' = IF runs[r].ok THEN runs[r].data ELSE categories
    /\ runs' = [runs EXCEPT ![r].pc = "tasks", ![r].data = <<>>]
    /\ UNCHANGED <<user, tasks, loading, rcats, rtasks, nextId, events, ops, used, hist>>
    /\ UNCHANGED notif
    /\ dlg' = CategoriesEffect(dlg, categories', now)

ServerTasks(r) ==
    /\ runs[r].pc = "tasks"
    /\ \/ /\ runs' = [runs EXCEPT ![r].pc = "tasks_ret", ![r].ok = TRUE,
                                  ![r].data = SelectTasks(runs[r].uid)]
          /\ UNCHANGED used
       \/ /\ Fails
          /\ runs' = [runs EXCEPT ![r].pc = "tasks_ret", ![r].ok = FALSE,
                                     ![r].data = <<>>, ![r].err = TRUE]
    /\ UNCHANGED <<user, tasks, categories, loading, rcats, rtasks, nextId, events, ops, hist, dlg>>
    /\ UNCHANGED notif

\* What the caller awaiting refreshData() does when loadData returns: the
\* mutation's promise resolves.
AfterRefresh(o) ==
    IF o = NoOwner THEN ops
    ELSE [ops EXCEPT ![o] = Resolved(ops[o].kind, ops[o].loads + 1)]

\* if (taskData) setTasks(taskData); finally setLoading(false); loadData returns
ContTasks(r) ==
    /\ runs[r].pc = "tasks_ret"
    /\ tasks' = IF runs[r].ok THEN runs[r].data ELSE tasks
    /\ loading' = FALSE
    /\ ops' = AfterRefresh(runs[r].owner)
    /\ hist' = [hist EXCEPT !.firstOk = hist.firstOk \/ ~runs[r].err]
    /\ runs' = [runs EXCEPT ![r] = IdleRun]
    /\ UNCHANGED <<user, categories, rcats, rtasks, nextId, events, used, dlg>>
    /\ UNCHANGED notif

\* ----------------------------------------------------------- mutations
Free(o) == ops[o].pc \in {"idle", "resolved", "rejected"}
IdleRuns == {r \in RunIds : runs[r].pc = "idle"}

\* What a call of addTask does up to its first await.
CallAddTask(o, task) ==
    IF user = NoUser THEN [ops EXCEPT ![o] = Rejected("addTask")]
    ELSE [ops EXCEPT ![o] = [IdleOp EXCEPT !.kind = "addTask", !.pc = "write",
                                           !.uid = user, !.upd = task]]

CallUpdateTask(o, id, updates) ==
    [ops EXCEPT ![o] = [IdleOp EXCEPT !.kind = "updateTask", !.pc = "write",
                                      !.uid = user, !.id = id, !.upd = updates]]

CallDeleteTask(o, id) ==
    [ops EXCEPT ![o] = [IdleOp EXCEPT !.kind = "deleteTask", !.pc = "write",
                                      !.uid = user, !.id = id]]

CallAddCategory(o, name) ==
    IF user = NoUser THEN [ops EXCEPT ![o] = Rejected("addCategory")]
    ELSE [ops EXCEPT ![o] = [IdleOp EXCEPT !.kind = "addCategory", !.pc = "write",
                                           !.uid = user, !.upd = [name |-> name]]]

CallUpdateCategory(o, id, updates) ==
    [ops EXCEPT ![o] = [IdleOp EXCEPT !.kind = "updateCategory", !.pc = "write",
                                      !.uid = user, !.id = id, !.upd = SafeUpdates(updates)]]

\* throw new Error(message) of deleteCategory(id)
Throws(o, id, message) ==
    [ops EXCEPT ![o] = [Rejected("deleteCategory") EXCEPT !.id = id, !.msg = message]]

\* CallDeleteCategory without the check of category.is_default
CallDeleteCategoryUnguarded(o, id) ==
    LET category == SelectSeq(categories, LAMBDA c : c.id = id)
        defaultCategory == SelectSeq(categories, LAMBDA c : c.is_default)
        tasksToMove == SelectSeq(tasks, LAMBDA t : t.category_id = id)
    IN IF Len(category) = 0 THEN Throws(o, id, "Category not found")
       ELSE IF Len(defaultCategory) = 0 THEN Throws(o, id, "Default category not found")
       ELSE [ops EXCEPT ![o] =
               [IdleOp EXCEPT !.kind = "deleteCategory",
                              !.pc = IF Len(tasksToMove) = 0 THEN "write" ELSE "move",
                              !.uid = user, !.id = id,
                              !.def = defaultCategory[1].id,
                              !.todo = [i \in 1..Len(tasksToMove) |-> tasksToMove[i].id]]]

\* categories.find(...) is the first element of the matching ones, if any
CallDeleteCategory(o, id) ==
    LET category == SelectSeq(categories, LAMBDA c : c.id = id)
        defaultCategory == SelectSeq(categories, LAMBDA c : c.is_default)
        tasksToMove == SelectSeq(tasks, LAMBDA t : t.category_id = id)
    IN IF Len(category) = 0 THEN Throws(o, id, "Category not found")
       ELSE IF category[1].is_default THEN Throws(o, id, "Cannot delete default category")
       ELSE IF Len(defaultCategory) = 0 THEN Throws(o, id, "Default category not found")
       ELSE [ops EXCEPT ![o] =
               [IdleOp EXCEPT !.kind = "deleteCategory",
                              !.pc = IF Len(tasksToMove) = 0 THEN "write" ELSE "move",
                              !.uid = user, !.id = id,
                              !.def = defaultCategory[1].id,
                              !.todo = [i \in 1..Len(tasksToMove) |-> tasksToMove[i].id]]]

NewTask ==
    [category_id |-> 0, status |-> "upcoming", due_date |-> Undefined,
     enable_notification |-> FALSE, notification_minutes_before |-> Undefined]

LocalCatIds == {categories[i].id : i \in 1..Len(categories)}
LocalTaskIds == {tasks[i].id : i \in 1..Len(tasks)}

AddTask(o) ==
    /\ Free(o)
    /\ Called
    /\ \E c \in LocalCatIds : ops' = CallAddTask(o, [NewTask EXCEPT !.category_id = c])
    /\ UNCHANGED <<user, tasks, categories, loading, rcats, rtasks, nextId, events, runs, hist, dlg>>
    /\ UNCHANGED notif

UpdateTask(o) ==
    /\ Free(o)
    /\ Called
    /\ \E id \in LocalTaskIds, c \in LocalCatIds :
          ops' = CallUpdateTask(o, id, [category_id |-> c])
    /\ UNCHANGED <<user, tasks, categories, loading, rcats, rtasks, nextId, events, runs, hist, dlg>>
    /\ UNCHANGED notif

DeleteTask(o) ==
    /\ Free(o)
    /\ Called
    /\ \E id \in LocalTaskIds : ops' = CallDeleteTask(o, id)
    /\ UNCHANGED <<user, tasks, categories, loading, rcats, rtasks, nextId, events, runs, hist, dlg>>
    /\ UNCHANGED notif

AddCategory(o) ==
    /\ Free(o)
    /\ Called
    /\ ops' = CallAddCategory(o, "Work")
    /\ UNCHANGED <<user, tasks, categories, loading, rcats, rtasks, nextId, events, runs, hist, dlg>>
    /\ UNCHANGED notif

UpdateCategory(o) ==
    /\ Free(o)
    /\ Called
    /\ \E id \in LocalCatIds,
          updates \in {[name |-> "Home"], [name |-> "Home", is_default |-> TRUE]} :
          ops' = CallUpdateCategory(o, id, updates)
    /\ UNCHANGED <<user, tasks, categories, loading, rcats, rtasks, nextId, events, runs, hist, dlg>>
    /\ UNCHANGED notif

DeleteCategory(o) ==
    /\ Free(o)
    /\ Called
    /\ \E id \in 1..MaxId : ops' = CallDeleteCategory(o, id)
    /\ UNCHANGED <<user, tasks, categories, loading, rcats, rtasks, nextId, events, runs, hist, dlg>>
    /\ UNCHANGED notif

\* deleteCategory's loop: one awaited update per task to move; its result is
\* not looked at, so the next request is issued whatever the answer was
ServerMove(o) ==
    /\ ops[o].pc = "move"
    /\ LET t == Head(ops[o].todo)
           hit == {x \in rtasks : x.id = t}
       IN /\ \/ /\ rtasks' = {IF x.id = t THEN [x EXCEPT !.category_id = ops[o].def] ELSE x
                                : x \in rtasks}
                /\ events' = IF hit = {} THEN events ELSE Emit(ops[o].uid)
                /\ UNCHANGED used
             \/ Fails /\ UNCHANGED <<rtasks, events>>
          /\ ops' = [ops EXCEPT ![o].todo = Tail(ops[o].todo),
                                ![o].pc = IF Len(ops[o].todo) = 1 THEN "write" ELSE "move"]
    /\ UNCHANGED <<user, tasks, categories, loading, rcats, nextId, runs, hist, dlg>>
    /\ UNCHANGED notif

\* The remote store serves the insert / update / delete of a mutation,
\* or answers with an error.
ServerWrite(o) ==
    /\ ops[o].pc = "write"
    /\ LET k == ops[o].kind
           id == ops[o].id
       IN \/ /\ k = "addTask"
             /\ nextId <= MaxId
             /\ rtasks' = rtasks \cup
                   {[id |-> nextId, user_id |-> ops[o].uid,
                     category_id |-> ops[o].upd.category_id,
                     status |-> ops[o].upd.status,
                     due_date |-> ops[o].upd.due_date,
                     enable_notification |-> ops[o].upd.enable_notification,
                     notification_minutes_before |-> ops[o].upd.notification_minutes_before]}
             /\ nextId' = nextId + 1
             /\ events' = Emit(ops[o].uid)
             /\ ops' = [ops EXCEPT ![o].pc = "write_ret", ![o].ok = TRUE]
             /\ UNCHANGED used
             /\ UNCHANGED rcats
          \/ /\ k = "updateTask"
             /\ rtasks' = {IF t.id = id THEN ApplyUpdates(t, ops[o].upd) ELSE t : t \in rtasks}
             /\ events' = IF rtasks' = rtasks THEN events ELSE Emit(ops[o].uid)
             /\ ops' = [ops EXCEPT ![o].pc = "write_ret", ![o].ok = TRUE]
             /\ UNCHANGED used
             /\ UNCHANGED <<rcats, nextId>>
          \/ /\ k = "deleteTask"
             /\ rtasks' = {t \in rtasks : t.id # id}
             /\ events' = IF rtasks' = rtasks THEN events ELSE Emit(ops[o].uid)
             /\ ops' = [ops EXCEPT ![o].pc = "write_ret", ![o].ok = TRUE]
             /\ UNCHANGED used
             /\ UNCHANGED <<rcats, nextId>>
          \/ /\ k = "addCategory"
             /\ nextId <= MaxId
             /\ rcats' = rcats \cup
                   {[id |-> nextId, name |-> ops[o].upd.name, user_id |-> ops[o].uid,
                     is_default |-> FALSE]}
             /\ nextId' = nextId + 1
             /\ events' = Emit(ops[o].uid)
             /\ ops' = [ops EXCEPT ![o].pc = "write_ret", ![o].ok = TRUE]
             /\ UNCHANGED used
             /\ UNCHANGED rtasks
          \/ /\ k = "updateCategory"
             /\ rcats' = {IF c.id = id THEN ApplyUpdates(c, ops[o].upd) ELSE c : c \in rcats}
             /\ events' = IF rcats' = rcats THEN events ELSE Emit(ops[o].uid)
             /\ ops' = [ops EXCEPT ![o].pc = "write_ret", ![o].ok = TRUE]
             /\ UNCHANGED used
             /\ UNCHANGED <<rtasks, nextId>>
          \/ /\ k = "deleteCategory"
             /\ rcats' = {c \in rcats : c.id # id}
             /\ events' = IF rcats' = rcats THEN events ELSE Emit(ops[o].uid)
             /\ ops' = [ops EXCEPT ![o].pc = "write_ret", ![o].ok = TRUE]
             /\ UNCHANGED used
             /\ UNCHANGED <<rtasks, nextId>>
          \/ /\ Fails \/ (k \in {"addTask", "addCategory"} /\ nextId > MaxId /\ UNCHANGED used)
             /\ ops' = [ops EXCEPT ![o].pc = "write_ret", ![o].ok = FALSE]
             /\ UNCHANGED <<rcats, rtasks, nextId, events>>
    /\ UNCHANGED <<user, tasks, categories, loading, runs, hist, dlg>>
    /\ UNCHANGED notif

\* WriteFailed without the throw: refreshData is called after a failed write
WriteFailedRefreshes(o) ==
    /\ ops[o].pc = "write_ret"
    /\ ~ops[o].ok
    /\ ops[o].uid # NoUser
    /\ \E r \in IdleRuns : runs' = BeginLoad(r, ops[o].uid, o)
    /\ ops' = [ops EXCEPT ![o].pc = "refresh"]
    /\ UNCHANGED <<user, tasks, categories, loading, rcats, rtasks, nextId, events, used, hist, dlg>>
    /\ UNCHANGED notif

\* if (error) throw error;
WriteFailed(o) ==
    /\ ops[o].pc = "write_ret"
    /\ ~ops[o].ok
    /\ ops' = [ops EXCEPT ![o] = Rejected(ops[o].kind)]
    /\ UNCHANGED <<user, tasks, categories, loading, rcats, rtasks, nextId, events, runs, used, hist, dlg>>
    /\ UNCHANGED notif

\* WriteDone without refreshData: the promise resolves right after the write
WriteDoneNoRefresh(o) ==
    /\ ops[o].pc = "write_ret"
    /\ ops[o].ok
    /\ ops' = [ops EXCEPT ![o] = Resolved(ops[o].kind, 0)]
    /\ UNCHANGED <<user, tasks, categories, loading, rcats, rtasks, nextId, events, runs, used, hist, dlg>>
    /\ UNCHANGED notif

\* await refreshData(): loadData is entered with the user of the render the
\* mutation was called in
WriteDone(o) ==
    /\ ops[o].pc = "write_ret"
    /\ ops[o].ok
    /\ IF ops[o].uid = NoUser
       THEN /\ tasks' = <<>>
            /\ categories' = <<>>
            /\ loading' = FALSE
            /\ ops' = [ops EXCEPT ![o] = Resolved(ops[o].kind, 1)]
            /\ UNCHANGED runs
       ELSE /\ \E r \in IdleRuns : runs' = BeginLoad(r, ops[o].uid, o)
            /\ ops' = [ops EXCEPT ![o].pc = "refresh"]
            /\ UNCHANGED <<tasks, categories, loading>>
    /\ UNCHANGED <<user, rcats, rtasks, nextId, events, used, hist>>
    /\ UNCHANGED notif
    /\ dlg' = IF ops[o].uid = NoUser THEN CategoriesEffect(dlg, categories', now) ELSE dlg

\* ------------------------------------------------- user effect, realtime
\* useEffect(..., [user?.id]) on mount, with no user yet
Mount ==
    /\ user = NoUser
    /\ loading
    /\ tasks' = <<>>
    /\ categories' = <<>>
    /\ loading' = FALSE
    /\ UNCHANGED <<user, rcats, rtasks, nextId, events, runs, ops, used, hist>>
    /\ UNCHANGED notif
    /\ dlg' = CategoriesEffect(dlg, categories', now)

\* onAuthStateChange with a session: setUser(session.user) and loadProfile is
\* called; the user effect of the data provider calls loadData() and the effect
\* of the notifications provider calls registerPushNotifications()
SignIn(u) ==
    /\ user = NoUser
    /\ ~loading
    /\ user' = u
    /\ \E r \in IdleRuns : runs' = BeginLoad(r, u, NoOwner)
    /\ hist' = [hist EXCEPT !.firstOk = FALSE]
    /\ lp' = Append(lp, LoadProfile(u))
    /\ reg' = Append(reg, Registration(u))
    /\ UNCHANGED <<tasks, categories, loading, rcats, rtasks, nextId, events, ops, used, dlg>>
    /\ UNCHANGED <<now, sub, isRegistered, scheduled, nextNotif, alert>>
    /\ UNCHANGED <<profile, rprofiles, expoPushToken, screen>>

\* onAuthStateChange without a session: setUser(null), setProfile(null); the
\* user effect empties the lists and the effect of the notifications provider
\* clears the token and the registration
SignOut ==
    /\ user # NoUser
    /\ Called
    /\ user' = NoUser
    /\ tasks' = <<>>
    /\ categories' = <<>>
    /\ loading' = FALSE
    /\ hist' = [hist EXCEPT !.out = TRUE]
    /\ UNCHANGED <<rcats, rtasks, nextId, events, runs, ops>>
    /\ isRegistered' = FALSE
    /\ expoPushToken' = <<>>
    /\ profile' = <<>>
    /\ UNCHANGED <<now, sub, scheduled, nextNotif, alert, rprofiles, lp, reg, screen>>
    /\ dlg' = CategoriesEffect(dlg, categories', now)

\* the channels exist while (user && !loading)
Subscribed == user # NoUser /\ ~loading

\* the postgres_changes callback: () => { loadData(); }
OnChange(r) == BeginLoad(r, user, NoOwner)

RealtimeDeliver ==
    /\ Subscribed
    /\ events[user] > 0
    /\ events' = [events EXCEPT ![user] = events[user] - 1]
    /\ \E r \in IdleRuns : runs' = OnChange(r)
    /\ UNCHANGED <<user, tasks, categories, loading, rcats, rtasks, nextId, ops, used, hist, dlg>>
    /\ UNCHANGED notif

\* a change event of a channel nobody is subscribed to is not received
RealtimeDrop ==
    /\ \E u \in Users :
          /\ ~(Subscribed /\ user = u)
          /\ events[u] > 0
          /\ events' = [events EXCEPT ![u] = events[u] - 1]
    /\ UNCHANGED <<user, tasks, categories, loading, rcats, rtasks, nextId, runs, ops, used, hist, dlg>>
    /\ UNCHANGED notif

LoadStep ==
    \E r \in RunIds :
        \/ Lookup(r)
        \/ ServerInsert(r) \/ ContInsert(r)
        \/ ServerCats(r) \/ ContCats(r)
        \/ ServerTasks(r) \/ ContTasks(r)

OpStep == \E o \in OpIds : ServerMove(o) \/ ServerWrite(o) \/ WriteFailed(o) \/ WriteDone(o)

Next ==
    \/ Mount
    \/ \E u \in Users : SignIn(u)
    \/ SignOut
    \/ RealtimeDeliver
    \/ RealtimeDrop
    \/ LoadStep
    \/ OpStep
    \/ \E o \in OpIds : AddTask(o)
    \/ \E o \in OpIds : UpdateTask(o)
    \/ \E o \in OpIds : DeleteTask(o)
    \/ \E o \in OpIds : AddCategory(o)
    \/ \E o \in OpIds : UpdateCategory(o)
    \/ \E o \in OpIds : DeleteCategory(o)

Spec == Init /\ [][Next]_vars

\* ------------------------------------------------ notifications, dialog
HalfMinute == Minute \div 2
\* the due dates the pickers are set to: now or earlier, 1.5 min, 6 min
DueChoices == {0, 3 * HalfMinute, 12 * HalfMinute}
\* a due date 25 h ahead
FarDue == 3000 * HalfMinute

\* registerForPushNotifications() has returned: with a token,
\* setExpoPushToken(token) and savePushToken is called; with null the call ends
ContToken(i) ==
    /\ reg[i].pc = "token"
    /\ \/ /\ expoPushToken' = <<"token">>
          /\ reg' = [reg EXCEPT ![i].pc = "save"]
          /\ UNCHANGED used
       \/ /\ Fails
          /\ reg' = Remove(reg, i)
          /\ UNCHANGED expoPushToken
    /\ UNCHANGED <<data, hist, now, dlg, sub, isRegistered, scheduled, nextNotif, alert, auth, screen>>

\* savePushToken() has returned (it swallows its errors): setIsRegistered(true)
ContSave(i) ==
    /\ reg[i].pc = "save"
    /\ isRegistered' = TRUE
    /\ reg' = Remove(reg, i)
    /\ UNCHANGED <<data, used, hist, now, dlg, sub, scheduled, nextNotif, alert, auth, screen>>
    /\ UNCHANGED expoPushToken

\* the steps of registerPushNotifications
RegisterPush == \E i \in 1..Len(reg) : ContToken(i) \/ ContSave(i)

\* time passes; the operating system delivers the notifications that are due
Tick ==
    /\ now < MaxTicks * HalfMinute
    /\ now' = now + HalfMinute
    /\ scheduled' = {n \in scheduled : n.date > now'}
    /\ UNCHANGED <<data, used, hist, dlg, sub, isRegistered, nextNotif, alert, auth, push, screen>>

\* The user works on the form while no save is in flight (a save refills or
\* resets the form when its reload arrives), and opens the dialog once the
\* data is loaded.
Editing == dlg.visible /\ sub.pc = "idle"

\* TasksScreen.handleTaskPress / handleAddTask
OpenDialog ==
    /\ user # NoUser
    /\ ~dlg.visible
    /\ sub.pc = "idle"
    /\ \A r \in RunIds : runs[r].pc = "idle"
    /\ \E t \in {<<>>} \cup {<<tasks[i]>> : i \in 1..Len(tasks)} :
          dlg' = FormEffect([dlg EXCEPT !.visible = TRUE, !.task = t], categories, now)
    /\ UNCHANGED <<data, used, hist, now, sub, isRegistered, scheduled, nextNotif, alert, auth, push, screen>>

\* the Cancel button: onDismiss() of TasksScreen
CancelDialog ==
    /\ Editing
    /\ dlg' = FormEffect([dlg EXCEPT !.visible = FALSE, !.task = <<>>], categories, now)
    /\ UNCHANGED <<data, used, hist, now, sub, isRegistered, scheduled, nextNotif, alert, auth, push, screen>>

SetTitle ==
    /\ Editing
    /\ ~dlg.title
    /\ dlg' = [dlg EXCEPT !.title = TRUE]
    /\ UNCHANGED <<data, used, hist, now, sub, isRegistered, scheduled, nextNotif, alert, auth, push, screen>>

\* the date and time pickers
SetDueDate ==
    /\ Editing
    /\ \E x \in DueChoices : dlg' = WithDueDate(dlg, x, now)
    /\ UNCHANGED <<data, used, hist, now, sub, isRegistered, scheduled, nextNotif, alert, auth, push, screen>>

\* the "Clear date" button
ClearDate ==
    /\ Editing
    /\ dlg.dueDate # Undefined
    /\ dlg' = WithDueDate(dlg, Undefined, now)
    /\ UNCHANGED <<data, used, hist, now, sub, isRegistered, scheduled, nextNotif, alert, auth, push, screen>>

\* the notification section is rendered when
\* dueDate && isRegistered && minutesUntilDue && minutesUntilDue > 1
SectionVisible ==
    /\ Editing
    /\ dlg.dueDate # Undefined
    /\ isRegistered
    /\ ~Falsy(dlg.minutesUntilDue)
    /\ dlg.minutesUntilDue[1] > 1

ToggleNotification ==
    /\ SectionVisible
    /\ dlg' = [dlg EXCEPT !.enableNotification = ~dlg.enableNotification]
    /\ UNCHANGED <<data, used, hist, now, sub, isRegistered, scheduled, nextNotif, alert, auth, push, screen>>

\* a chip of validNotificationOptions is pressed
SelectMinutes ==
    /\ SectionVisible
    /\ dlg.enableNotification
    /\ LET opts == ValidNotificationOptions(dlg.minutesUntilDue)
       IN \E i \in 1..Len(opts) : dlg' = [dlg EXCEPT !.notificationMinutesBefore = opts[i]]
    /\ UNCHANGED <<data, used, hist, now, sub, isRegistered, scheduled, nextNotif, alert, auth, push, screen>>

IsOverdue(d) == d.minutesUntilDue # <<>> /\ d.minutesUntilDue[1] <= 0

\* taskData of handleSubmit
TaskData(d) ==
    [category_id |-> d.categoryId,
     status |-> "upcoming",
     due_date |-> d.dueDate,
     enable_notification |-> d.enableNotification /\ ~IsOverdue(d),
     notification_minutes_before |->
         IF d.enableNotification /\ ~IsOverdue(d) THEN d.notificationMinutesBefore
         ELSE Undefined]

\* an undefined due_date is not part of the request body of an update
UpdateBody(td) ==
    IF td.due_date = Undefined THEN [f \in (DOMAIN td) \ {"due_date"} |-> td[f]] ELSE td

\* handleSubmit up to its first await
HandleSubmit(o) ==
    /\ Editing
    /\ dlg.title
    /\ dlg.categoryId # 0
    /\ Free(o)
    /\ IF /\ dlg.enableNotification
          /\ dlg.dueDate # Undefined
          /\ ~IsOverdue(dlg)
          /\ ~IsNotificationValid(dlg)
       THEN /\ alert' = "Invalid Notification"
            /\ UNCHANGED <<ops, sub, used>>
       ELSE /\ Called
            /\ ops' = IF dlg.task # <<>>
                       THEN CallUpdateTask(o, dlg.task[1].id, UpdateBody(TaskData(dlg)))
                       ELSE CallAddTask(o, TaskData(dlg))
            /\ sub' = [pc |-> "saving", d |-> dlg, valid |-> IsNotificationValid(dlg),
                       isRegistered |-> isRegistered]
            /\ UNCHANGED alert
    /\ UNCHANGED <<user, tasks, categories, loading, rcats, rtasks, nextId, events, runs>>
    /\ UNCHANGED <<hist, now, dlg, isRegistered, scheduled, nextNotif, auth, push, screen>>

\* onDismiss(); resetForm();
Dismissed(d) == ResetForm([d EXCEPT !.visible = FALSE, !.task = <<>>], categories)

\* handleSubmit after updateTask / addTask has resolved.  addTask resolves
\* with undefined, so reading savedTask.id of a new task throws; the throw is
\* caught and the error alert is shown.
SubmitSaved(o) ==
    /\ sub.pc = "saving"
    /\ ops[o].pc = "resolved"
    /\ LET d == sub.d
           wanted == d.enableNotification /\ d.dueDate # Undefined /\ sub.isRegistered
       IN IF wanted /\ d.task = <<>>
          THEN /\ alert' = "Error"
               /\ UNCHANGED <<dlg, scheduled, nextNotif, hist, used>>
          ELSE IF /\ wanted
                  /\ sub.valid
                  /\ d.minutesUntilDue # <<>>
                  /\ d.minutesUntilDue[1] > 0
               THEN /\ \/ /\ scheduled' = ScheduleTaskReminder(d.task[1].id, d.dueDate,
                                                               d.notificationMinutesBefore, now)
                          /\ UNCHANGED used
                       \/ Fails /\ UNCHANGED scheduled
                    /\ nextNotif' = IF scheduled' = scheduled THEN nextNotif ELSE nextNotif + 1
                    /\ hist' = [hist EXCEPT !.call =
                                   [seq |-> hist.call.seq + 1, taskId |-> d.task[1].id,
                                    dueDate |-> d.dueDate,
                                    minutesBefore |-> d.notificationMinutesBefore,
                                    at |-> now]]
                    /\ dlg' = Dismissed(dlg)
                    /\ UNCHANGED alert
               ELSE /\ dlg' = Dismissed(dlg)
                    /\ UNCHANGED <<alert, scheduled, nextNotif, hist, used>>
    /\ sub' = IdleSubmit
    /\ UNCHANGED <<data, now, isRegistered, auth, push, screen>>

\* handleSubmit when updateTask / addTask has thrown
SubmitFailed(o) ==
    /\ sub.pc = "saving"
    /\ ops[o].pc = "rejected"
    /\ alert' = "Error"
    /\ sub' = IdleSubmit
    /\ ops' = [ops EXCEPT ![o] = IdleOp]
    /\ UNCHANGED <<user, tasks, categories, loading, rcats, rtasks, nextId, events, runs>>
    /\ UNCHANGED <<used, hist, now, dlg, isRegistered, scheduled, nextNotif, auth, push, screen>>

\* the steps of the addTask / updateTask call of the dialog
SaveStep == \E o \in OpIds : ServerWrite(o) \/ WriteFailed(o) \/ WriteDone(o)

NextDialog ==
    \/ Mount
    \/ \E u \in Users : SignIn(u)
    \/ LoadStep
    \/ SaveStep
    \/ RegisterPush
    \/ Tick
    \/ OpenDialog
    \/ CancelDialog
    \/ SetTitle
    \/ SetDueDate
    \/ ClearDate
    \/ ToggleNotification
    \/ SelectMinutes
    \/ \E o \in OpIds : HandleSubmit(o)
    \/ \E o \in OpIds : SubmitSaved(o)
    \/ \E o \in OpIds : SubmitFailed(o)

SpecDialog == Init /\ [][NextDialog]_vars

\* a consumer of the notifications context calls scheduleTaskReminder
CallScheduleTaskReminder ==
    /\ Called
    /\ \E taskId \in {1, MaxId}, dueDate \in DueChoices \cup {FarDue},
          minutesBefore \in {Undefined, FallbackOption} \cup {AllOptions[i] : i \in 1..Len(AllOptions)} :
          /\ scheduled' = ScheduleTaskReminder(taskId, dueDate, minutesBefore, now)
          /\ hist' = [hist EXCEPT !.call =
                         [seq |-> hist.call.seq + 1, taskId |-> taskId, dueDate |-> dueDate,
                          minutesBefore |-> minutesBefore, at |-> now]]
    /\ nextNotif' = IF scheduled' = scheduled THEN nextNotif ELSE nextNotif + 1
    /\ UNCHANGED <<data, now, dlg, sub, isRegistered, alert, auth, push, screen>>

NextSchedule == Tick \/ CallScheduleTaskReminder

SpecSchedule == Init /\ [][NextSchedule]_vars

\* ------------------------------------------- AuthProvider (session, profile)
\* the reaction of the other providers to a user id that has changed to u
UserEffects(u) ==
    IF u = user
    THEN UNCHANGED <<tasks, categories, loading, runs, dlg, hist, expoPushToken, isRegistered, reg>>
    ELSE /\ \E r \in IdleRuns : runs' = BeginLoad(r, u, NoOwner)
         /\ hist' = [hist EXCEPT !.firstOk = FALSE, !.out = hist.out \/ user # NoUser]
         /\ reg' = Append(reg, Registration(u))
         /\ UNCHANGED <<tasks, categories, loading, dlg, expoPushToken, isRegistered>>

\* onAuthStateChange with the session of another user while one is signed in
SwitchUser(u) ==
    /\ user \notin {NoUser, u}
    /\ Called
    /\ user' = u
    /\ lp' = Append(lp, LoadProfile(u))
    /\ UserEffects(u)
    /\ UNCHANGED <<rcats, rtasks, nextId, events, ops>>
    /\ UNCHANGED <<now, sub, scheduled, nextNotif, alert, profile, rprofiles, screen>>

\* AppState 'change' to active: getSession() is called
AppActive ==
    /\ Called
    /\ lp' = Append(lp, SessionCheck)
    /\ UNCHANGED <<data, hist, now, dlg, sub, isRegistered, scheduled, nextNotif, alert>>
    /\ UNCHANGED <<profile, rprofiles, push, screen>>

\* getSession() is answered with the session the client holds
ServerSession(i) ==
    /\ lp[i].pc = "session"
    /\ lp' = [lp EXCEPT ![i].pc = "session_ret", ![i].uid = user]
    /\ UNCHANGED <<data, used, hist, now, dlg, sub, isRegistered, scheduled, nextNotif, alert>>
    /\ UNCHANGED <<profile, rprofiles, push, screen>>

\* if (data.session) { setSession; setUser(data.session.user); await loadProfile }
ContSession(i) ==
    /\ lp[i].pc = "session_ret"
    /\ ~loading
    /\ IF lp[i].uid = NoUser
       THEN /\ lp' = Remove(lp, i)
            /\ UNCHANGED <<user, tasks, categories, loading, runs, dlg, hist,
                           expoPushToken, isRegistered, reg>>
       ELSE /\ user' = lp[i].uid
            /\ lp' = [lp EXCEPT ![i] = LoadProfile(lp[i].uid)]
            /\ UserEffects(lp[i].uid)
    /\ UNCHANGED <<rcats, rtasks, nextId, events, ops, used>>
    /\ UNCHANGED <<now, sub, scheduled, nextNotif, alert, profile, rprofiles, screen>>

\* .from("profiles").select("*").eq("id", userId).maybeSingle() is served
ServerProfile(i) ==
    /\ lp[i].pc = "select"
    /\ \/ /\ lp' = [lp EXCEPT ![i].pc = IF lp[i].uid \in rprofiles THEN "found" ELSE "absent",
                                ![i].ok = TRUE]
          /\ UNCHANGED used
       \/ /\ Fails
          /\ lp' = [lp EXCEPT ![i].pc = "absent", ![i].ok = FALSE]
    /\ UNCHANGED <<data, hist, now, dlg, sub, isRegistered, scheduled, nextNotif, alert>>
    /\ UNCHANGED <<profile, rprofiles, push, screen>>

\* loadProfile continues: if (error) return; if (data) setProfile(data); else
\* createProfile(userId), which issues its insert
ContProfile(i) ==
    /\ lp[i].pc \in {"found", "absent"}
    /\ IF ~lp[i].ok THEN lp' = Remove(lp, i) /\ UNCHANGED profile
       ELSE IF lp[i].pc = "found"
            THEN lp' = Remove(lp, i) /\ profile' = <<[id |-> lp[i].uid]>>
            ELSE lp' = [lp EXCEPT ![i].pc = "insert", ![i].ok = FALSE] /\ UNCHANGED profile
    /\ UNCHANGED <<data, used, hist, now, dlg, sub, isRegistered, scheduled, nextNotif, alert>>
    /\ UNCHANGED <<rprofiles, push, screen>>

\* .from("profiles").insert(newProfile).select().single() is served; a second
\* row with the same id is refused
ServerCreate(i) ==
    /\ lp[i].pc = "insert"
    /\ \/ /\ lp[i].uid \notin rprofiles
          /\ rprofiles' = rprofiles \cup {lp[i].uid}
          /\ lp' = [lp EXCEPT ![i].pc = "insert_ret", ![i].ok = TRUE]
          /\ UNCHANGED used
       \/ /\ Fails \/ (lp[i].uid \in rprofiles /\ UNCHANGED used)
          /\ lp' = [lp EXCEPT ![i].pc = "insert_ret", ![i].ok = FALSE]
          /\ UNCHANGED rprofiles
    /\ UNCHANGED <<data, hist, now, dlg, sub, isRegistered, scheduled, nextNotif, alert>>
    /\ UNCHANGED <<profile, push, screen>>

\* createProfile continues: if (error) return; if (data) setProfile(data)
ContCreate(i) ==
    /\ lp[i].pc = "insert_ret"
    /\ profile' = IF lp[i].ok THEN <<[id |-> lp[i].uid]>> ELSE profile
    /\ lp' = Remove(lp, i)
    /\ UNCHANGED <<data, used, hist, now, dlg, sub, isRegistered, scheduled, nextNotif, alert>>
    /\ UNCHANGED <<rprofiles, push, screen>>

ProfileStep ==
    \E i \in 1..Len(lp) :
        \/ ServerSession(i) \/ ContSession(i)
        \/ ServerProfile(i) \/ ContProfile(i)
        \/ ServerCreate(i) \/ ContCreate(i)

\* The loadData and registerPushNotifications calls that the effects start
\* stay in flight here: their steps touch no state of the auth provider.
NextAuth ==
    \/ Mount
    \/ \E u \in AuthUsers : SignIn(u)
    \/ SignOut
    \/ \E u \in AuthUsers : SwitchUser(u)
    \/ AppActive
    \/ ProfileStep

SpecAuth == Init /\ [][NextAuth]_vars

\* the notifications provider under sign-in, user switch and sign-out
NextPush ==
    \/ Mount
    \/ \E u \in AuthUsers : SignIn(u)
    \/ SignOut
    \/ \E u \in AuthUsers : SwitchUser(u)
    \/ RegisterPush

SpecPush == Init /\ [][NextPush]_vars

\* --------------------------------------------------------- TasksScreen
Day == 1440 * Minute
\* date-fns isToday / isPast
IsToday(date, t) == date \div Day = t \div Day
IsPast(date, t) == date < t

\* filteredTasks
FilteredTasks ==
    LET f == selectedFilter.name
        Keep(t) ==
            IF f = "completed" THEN t.status = "completed"
            ELSE IF f = "canceled" THEN t.status = "canceled"
            ELSE IF f = "all" THEN TRUE
            ELSE IF f = "today" THEN t.due_date # Undefined /\ IsToday(t.due_date, now)
            ELSE IF f = "overdue" THEN
                /\ t.status = "upcoming"
                /\ t.due_date # Undefined
                /\ IsPast(t.due_date, now)
                /\ ~IsToday(t.due_date, now)
            ELSE t.category_id = selectedFilter.category
    IN SelectSeq(tasks, Keep)

\* renderKanbanView: the lists handed to the columns To Do, Completed, Canceled
KanbanUpcoming(t) == t.status = "upcoming"
DisplayUpcoming ==
    IF kanbanFilter \in {"completed", "canceled"} THEN <<>>
    ELSE SelectSeq(FilteredTasks, KanbanUpcoming)
DisplayCompleted ==
    LET Completed(t) == t.status = "completed"
    IN IF kanbanFilter \in {"upcoming", "canceled"} THEN <<>>
       ELSE SelectSeq(FilteredTasks, Completed)
DisplayCanceled ==
    LET Canceled(t) == t.status = "canceled"
    IN IF kanbanFilter \in {"upcoming", "completed"} THEN <<>>
       ELSE SelectSeq(FilteredTasks, Canceled)

\* the filter modal: a named filter or a category is chosen
SetSelectedFilter ==
    /\ \E f \in {Filter(n) : n \in {"all", "today", "completed", "canceled", "overdue"}}
                \cup {CategoryFilter(categories[i].id) : i \in 1..Len(categories)} :
          /\ f # selectedFilter
          /\ selectedFilter' = f
    /\ UNCHANGED <<data, used, hist, dlg, now, sub, isRegistered, scheduled, nextNotif, alert,
                   auth, push, kanbanFilter>>

\* the buttons above the Kanban columns
SetKanbanFilter ==
    /\ \E k \in {"all", "upcoming", "completed", "canceled"} :
          /\ k # kanbanFilter
          /\ kanbanFilter' = k
    /\ UNCHANGED <<data, used, hist, dlg, now, sub, isRegistered, scheduled, nextNotif, alert,
                   auth, push, selectedFilter>>

\* The task lists the screen is shown with: the signed-in user's rows as
\* loadData has stored them, of every status and with a due date that is
\* absent, yesterday, earlier today or later today.
TaskStatus == {"upcoming", "overdue", "completed", "canceled"}
StartOfToday == 2 * Day
KanbanDues == {Undefined, StartOfToday - Day, StartOfToday, StartOfToday + 2 * Minute}
KanbanRows(n) ==
    [1..n -> [status : TaskStatus, due_date : KanbanDues, category_id : {1, 2}]]
KanbanTask(i, r) ==
    [id |-> 2 + i, user_id |-> "u1", category_id |-> r.category_id, status |-> r.status,
     due_date |-> r.due_date, enable_notification |-> FALSE,
     notification_minutes_before |-> Undefined]

InitKanban ==
    /\ user = "u1"
    /\ \E n \in 0..MaxTasks : \E rows \in KanbanRows(n) :
          /\ tasks = [i \in 1..n |-> KanbanTask(i, rows[i])]
          /\ rtasks = {KanbanTask(i, rows[i]) : i \in 1..n}
          /\ nextId = 3 + n
    /\ categories = <<[id |-> 1, name |-> "General", user_id |-> "u1", is_default |-> TRUE],
                      [id |-> 2, name |-> "Work", user_id |-> "u1", is_default |-> FALSE]>>
    /\ rcats = {categories[i] : i \in 1..2}
    /\ loading = FALSE
    /\ events = [u \in Users |-> 0]
    /\ runs = [r \in RunIds |-> IdleRun]
    /\ ops = [o \in OpIds |-> IdleOp]
    /\ used = [calls |-> 0, errors |-> 0]
    /\ hist = [firstOk |-> TRUE, out |-> FALSE,
               call |-> [seq |-> 0, taskId |-> 0, dueDate |-> Undefined,
                         minutesBefore |-> Undefined, at |-> 0]]
    /\ now = StartOfToday + Minute
    /\ dlg = ClosedDialog
    /\ sub = IdleSubmit
    /\ isRegistered = FALSE
    /\ scheduled = {}
    /\ nextNotif = 1
    /\ alert = "none"
    /\ profile = <<>>
    /\ rprofiles = {}
    /\ lp = <<>>
    /\ expoPushToken = <<>>
    /\ reg = <<>>
    /\ selectedFilter = Filter("all")
    /\ kanbanFilter = "all"

NextKanban == SetSelectedFilter \/ SetKanbanFilter

SpecKanban == InitKanban /\ [][NextKanban]_vars

TypeOK ==
    /\ user \in Users \cup {NoUser}
    /\ loading \in BOOLEAN
    /\ nextId \in 1..(MaxId + 1)

\* ------------------------------------------------------------- claims
LocalDefaults == SelectSeq(categories, LAMBDA c : c.is_default)
InFlight == {r \in RunIds : runs[r].pc # "idle"}
Pending(o) == ops[o].pc \in {"move", "write", "write_ret", "refresh"}
Completes(r) == runs[r].pc = "tasks_ret" /\ runs'[r].pc = "idle"

\* C1: in every reachable state the remote categories of a user hold at most
\* one row with is_default = true.
C1_AtMostOneDefault ==
    \A u \in Users : Cardinality(DefaultsOf(rcats, u)) <= 1

\* C2: the first loadData of the signed-in user that completes without a
\* remote error leaves exactly one default category ('General') in the remote
\* table and in the local list; and a loadData whose lookup was served without
\* error while the user had a default category issues no insert.  (Stated for
\* a user who has not signed out before, so that no loadData of an earlier
\* sign-in is involved.)
C2_LazyDefault ==
    [][ /\ \A r \in RunIds :
             (Completes(r) /\ ~runs[r].err /\ ~hist.firstOk /\ ~hist.out /\ runs[r].uid = user)
                => /\ Cardinality(DefaultsOf(rcats', user)) = 1
                   /\ Len(LocalDefaults') = 1
        /\ \A r \in RunIds :
             (runs'[r].pc = "insert_ret" /\ runs'[r].ok)
                => runs'[r].data[1].name = "General" /\ runs'[r].data[1].is_default
        /\ \A r \in RunIds :
             (runs[r].pc = "lookup" /\ runs'[r].pc = "insert" /\ ~runs'[r].err)
                => DefaultsOf(rcats, runs[r].uid) = {} ]_vars

\* C7: a mutation whose promise has resolved has had a loadData run to its end
\* on its behalf, and a change event received while subscribed starts a
\* loadData for the current user.
C7_ReloadOnChange ==
    [][ /\ \A o \in OpIds : ops'[o].pc = "resolved" => ops'[o].loads = 1
        /\ \A o \in OpIds :
             (ops[o].pc = "refresh" /\ ops'[o].pc # "refresh")
                => \E r \in RunIds : Completes(r) /\ runs[r].owner = o
        /\ (Subscribed /\ events'[user] < events[user])
                => \E r \in RunIds : /\ runs[r].pc = "idle"
                                     /\ runs'[r].pc = "lookup"
                                     /\ runs'[r].uid = user ]_vars

C7_Witness ==
    /\ \E o \in OpIds : ops[o].pc = "resolved" /\ ops[o].kind = "addCategory" /\ ops[o].loads = 1
    /\ \E c \in rcats : c.name = "Work"
    /\ \E i \in 1..Len(categories) : categories[i].name = "Work"

\* C8: once nothing is in flight (no loadData, no mutation, no undelivered
\* change event), the local tasks and categories are the remote rows of the
\* current user.  (Stated for behaviours in which no request was answered with
\* an error and the user has not signed out before.)
C8_LocalEqualsRemote ==
    (/\ user # NoUser
     /\ InFlight = {}
     /\ \A o \in OpIds : ~Pending(o)
     /\ events[user] = 0
     /\ used.errors = 0
     /\ ~hist.out)
        => /\ categories = SelectCategories(user)
           /\ tasks = SelectTasks(user)

\* C9: when the remote write of addTask, updateTask, deleteTask, addCategory or
\* updateCategory is answered with an error, the mutation rejects, starts no
\* loadData and leaves the local tasks and categories as they are.
C9_FailedMutation ==
    [][ \A o \in OpIds :
          (/\ ops[o].pc = "write_ret"
           /\ ~ops[o].ok
           /\ ops[o].kind # "deleteCategory"
           /\ ops'[o] # ops[o])
             => /\ ops'[o].pc = "rejected"
                /\ ops'[o].loads = 0
                /\ runs' = runs
                /\ tasks' = tasks
                /\ categories' = categories ]_vars

C9_Witness ==
    \E o \in OpIds : /\ ops[o].pc = "rejected"
                     /\ ops[o].kind = "updateTask"
                     /\ used.errors = 1
                     /\ Len(tasks) = 1

\* the notifications of the reminders of task id
RemindersOf(id) == {n \in scheduled : n.type = "task_reminder" /\ n.taskId = id}

\* C3: a notification that scheduleTaskNotification schedules has the trigger
\* date dueDate - minutesBefore x 60000 ms (minutesBefore 60 when not given)
\* and carries the given taskId with type 'task_reminder'.
C3_TriggerInstant ==
    [][ \A n \in scheduled' \ scheduled :
          LET call == hist'.call
              lead == IF call.minutesBefore = Undefined THEN 60 ELSE call.minutesBefore
          IN /\ hist'.call.seq = hist.call.seq + 1
             /\ n.date = call.dueDate - lead * 60000
             /\ n.taskId = call.taskId
             /\ n.type = "task_reminder" ]_vars

C3_Witness ==
    /\ hist.call.minutesBefore = Undefined
    /\ \E n \in scheduled : /\ n.id = nextNotif - 1
                            /\ n.taskId = hist.call.taskId
                            /\ n.date = hist.call.dueDate - 3600000

\* C4: for a due date m > 0 minutes ahead every option of
\* validNotificationOptions is strictly less than m; with no due date, or a
\* due date not in the future, the six predefined options are offered.
C4_OptionsValid ==
    LET mu == dlg.minutesUntilDue
        opts == ValidNotificationOptions(mu)
    IN /\ (mu # <<>> /\ mu[1] > 0) => \A i \in 1..Len(opts) : opts[i] < mu[1]
       /\ (mu = <<>> \/ (mu # <<>> /\ mu[1] <= 0) \/ dlg.dueDate = Undefined)
             => opts = <<5, 15, 30, 60, 120, 1440>>

\* C5: whatever saves of a task were made through the dialog, at most one
\* scheduled notification carries the task's id, and once the save is over it
\* is the reminder of the saved due date and lead time.
C5_Reconciled ==
    \A t \in rtasks :
        /\ Cardinality(RemindersOf(t.id)) <= 1
        /\ (sub.pc = "idle" /\ \A o \in OpIds : ~Pending(o))
              => \A n \in RemindersOf(t.id) :
                    /\ t.enable_notification
                    /\ n.date = t.due_date - t.notification_minutes_before * 60000

\* C6: when the save of an existing task with the toggle off or the due date
\* cleared completes (notifications registered), no scheduled notification of
\* that task remains.
C6_RemovedWhenOff ==
    [][ \A o \in OpIds :
          (/\ sub.pc = "saving" /\ sub'.pc = "idle"
           /\ ops[o].pc = "resolved"
           /\ sub.d.task # <<>>
           /\ sub.isRegistered
           /\ (~sub.d.enableNotification \/ sub.d.dueDate = Undefined))
             => \A n \in scheduled' : n.taskId # sub.d.task[1].id ]_vars

\* C10: a call of scheduleTaskNotification whose trigger instant is at or before
\* the current time schedules nothing, and every scheduled reminder has a
\* trigger time later than the moment it was scheduled.
C10_NeverInPast ==
    [][ /\ (/\ hist'.call.seq # hist.call.seq
            /\ hist'.call.dueDate
                  - (IF hist'.call.minutesBefore = Undefined THEN 60
                     ELSE hist'.call.minutesBefore) * 60000 <= now)
              => scheduled' = scheduled
        /\ \A n \in scheduled' : n.type = "task_reminder" => n.date > n.at ]_vars

C10_Witness ==
    /\ hist.call.seq > 0
    /\ hist.call.dueDate - hist.call.minutesBefore * 60000 <= hist.call.at
    /\ hist.call.dueDate > hist.call.at
    /\ RemindersOf(hist.call.taskId) = {}
    /\ ~dlg.visible

\* the save of the dialog has just returned into handleSubmit
SaveReturns(o) == sub.pc = "saving" /\ sub'.pc = "idle" /\ ops[o].pc = "resolved"

\* C11: when the dialog is submitted for a new task with a future due date,
\* notifications registered and enabled and a valid lead time, and the insert
\* has succeeded, exactly one reminder is scheduled, carrying the id of a
\* stored task, and the dialog is dismissed with the form reset.
C11_NewTaskSaved ==
    [][ \A o \in OpIds :
          (/\ SaveReturns(o)
           /\ sub.d.task = <<>>
           /\ sub.d.enableNotification /\ sub.isRegistered /\ sub.valid
           /\ sub.d.dueDate # Undefined
           /\ TriggerDate(sub.d.dueDate, sub.d.notificationMinutesBefore) > now)
             => /\ Cardinality(scheduled' \ scheduled) = 1
                /\ \A n \in scheduled' \ scheduled : \E t \in rtasks : t.id = n.taskId
                /\ ~dlg'.visible
                /\ ~dlg'.title ]_vars

\* C12: whenever the form holds a due date whose minutesUntilDue is positive
\* (the auto-adjust effect has run), the selected lead time is strictly less
\* than minutesUntilDue, and so a submit with the reminder enabled is not
\* answered with the 'Invalid Notification' alert.
C12_AdjustedValid ==
    (/\ dlg.visible
     /\ dlg.dueDate # Undefined
     /\ dlg.minutesUntilDue # <<>>
     /\ dlg.minutesUntilDue[1] > 0)
        => /\ dlg.notificationMinutesBefore < dlg.minutesUntilDue[1]
           /\ IsNotificationValid(dlg)

\* C13: handleSubmit starts no save while the reminder is enabled, the due date
\* is in the future and the selected lead time is not strictly less than the
\* minutes remaining; and a row written with enable_notification = true and a
\* future due date has notification_minutes_before strictly less than the
\* minutes remaining.
C13_InvalidRejected ==
    [][ /\ (/\ sub.pc = "idle" /\ sub'.pc = "saving"
            /\ dlg.enableNotification
            /\ dlg.dueDate # Undefined
            /\ dlg.dueDate > now)
              => dlg.notificationMinutesBefore < DifferenceInMinutes(dlg.dueDate, now)
        /\ \A t \in rtasks' \ rtasks :
              (t.enable_notification /\ t.due_date # Undefined /\ t.due_date > now)
                 => t.notification_minutes_before < DifferenceInMinutes(t.due_date, now) ]_vars

\* C14: when deleteCategory(id) returns successfully, no remote task of the
\* user references the deleted category (its tasks reference the default
\* category instead).
C14_TasksMoved ==
    [][ \A o \in OpIds :
          (/\ ops[o].kind = "deleteCategory"
           /\ ops[o].pc = "refresh"
           /\ ops'[o].pc = "resolved")
             => \A t \in rtasks' : t.user_id = ops[o].uid => t.category_id # ops[o].id ]_vars

\* C15: deleteCategory called with the id of a local category whose is_default
\* is true rejects with 'Cannot delete default category', and called with an
\* id absent from the local categories rejects with 'Category not found'; in
\* both cases no request is issued and the remote tables and the local lists
\* stay as they are.
C15_DefaultKept ==
    [][ \A o \in OpIds :
          (Free(o) /\ ops'[o] # ops[o] /\ ops'[o].kind = "deleteCategory")
             => LET id == ops'[o].id
                    refused(message) ==
                        /\ ops'[o].pc = "rejected"
                        /\ ops'[o].msg = message
                        /\ rcats' = rcats /\ rtasks' = rtasks
                        /\ tasks' = tasks /\ categories' = categories
                        /\ runs' = runs
                IN /\ (\E i \in 1..Len(categories) :
                          categories[i].id = id /\ categories[i].is_default)
                        => refused("Cannot delete default category")
                   /\ (id \notin LocalCatIds) => refused("Category not found") ]_vars

C15_Witness ==
    \E o \in OpIds :
        /\ ops[o].pc = "rejected"
        /\ ops[o].msg = "Cannot delete default category"
        /\ \E c \in rcats : c.id = ops[o].id /\ c.is_default
        /\ Len(tasks) > 0

DefaultIds(S) == {c.id : c \in {x \in S : x.is_default}}

\* C16: the remote write of addCategory inserts a row with is_default = false,
\* and the remote write of updateCategory changes the is_default flag of no
\* category: the set of default categories is the same before and after.
C16_DefaultsUnchanged ==
    [][ \A o \in OpIds :
          (/\ ops[o].kind \in {"addCategory", "updateCategory"}
           /\ ops[o].pc = "write"
           /\ ops'[o].pc = "write_ret")
             => /\ DefaultIds(rcats') = DefaultIds(rcats)
                /\ \A c \in rcats' : (\A x \in rcats : x.id # c.id) => ~c.is_default
                /\ \A c \in rcats' : \A x \in rcats :
                      x.id = c.id => x.is_default = c.is_default ]_vars

C16_Witness ==
    /\ \E o \in OpIds : ops[o].pc = "resolved" /\ ops[o].kind = "updateCategory"
    /\ \E c \in rcats : c.name = "Home" /\ ~c.is_default
    /\ \E i \in 1..Len(categories) : categories[i].name = "Home" /\ ~categories[i].is_default

\* C17: in every reachable state the local tasks and categories hold only rows
\* of the signed-in user, and both lists are empty while no user is signed in.
C17_Isolation ==
    /\ \A i \in 1..Len(tasks) : user # NoUser /\ tasks[i].user_id = user
    /\ \A i \in 1..Len(categories) : user # NoUser /\ categories[i].user_id = user

\* C18: in every reachable state of AuthProvider, profile is non-null only if
\* a user is signed in and profile.id equals user.id.
C18_ProfileOfUser ==
    profile # <<>> => (user # NoUser /\ profile[1].id = user)

\* C19: whenever no user is signed in, expoPushToken is null and isRegistered
\* is false; and isRegistered = true implies expoPushToken is non-null.
C19_ClearedAtLogout ==
    /\ user = NoUser => (expoPushToken = <<>> /\ ~isRegistered)
    /\ isRegistered => expoPushToken # <<>>

\* the number of cards the three Kanban columns show for task id
KanbanCards(id) ==
    LET columns == <<DisplayUpcoming, DisplayCompleted, DisplayCanceled>>
    IN Cardinality({p \in (1..3) \X (1..Len(tasks)) :
                      p[2] <= Len(columns[p[1]]) /\ columns[p[1]][p[2]].id = id})

\* C20: in the Kanban view with kanbanFilter = "all", every task of the
\* filtered task list appears in exactly one of the three columns, whatever
\* its status (upcoming, overdue, completed, canceled).
C20_InOneColumn ==
    kanbanFilter = "all" =>
        \A i \in 1..Len(FilteredTasks) : KanbanCards(FilteredTasks[i].id) = 1

====
